---- MODULE Spec2Model ----
(***************************************************************************)
(* A model of monitoring_bot (src/main.py): the file-backed cursor and     *)
(* de-duplication store (FileState), the text analyzer                     *)
(* (FlightSearchAnalyzer) and the monitoring run (monitor_channels).       *)
(*                                                                         *)
(* Text is modelled at the level of lexical units.  A text is a sequence   *)
(* of lines, a line is a sequence of units separated by one space, and a   *)
(* unit is a word, a hashtag, a number, a numeric date, a currency-marked  *)
(* amount or a run of neutral characters.  The regular expressions of the  *)
(* source are modelled by what they match on such units.  Strings are      *)
(* ASCII transliterations of the Russian words of the source ("vylet" is   *)
(* "вылет", "iz" is "из", "rub" is "руб", ...); a unit carries the number  *)
(* of characters of the original in its field n.                           *)
(***************************************************************************)
EXTENDS Integers, Sequences, FiniteSets, TLC

----------------------------------------------------------------------------
(* Lexical units *)

NoDec == 0 - 1

Unit(k, s, d, m, y, yd, g, dec, n) ==
    [k |-> k, s |-> s, d |-> d, m |-> m, y |-> y, yd |-> yd,
     g |-> g, dec |-> dec, n |-> n]

\* a word of n letters
W(s, n) == Unit("w", s, 0, 0, 0, 0, <<>>, NoDec, n)
\* a hashtag "#s" (n counts the #)
Tag(s, n) == Unit("tag", s, 0, 0, 0, 0, <<>>, NoDec, n)
\* n neutral characters: no letters run of 3, no digits next to a keyword
Fill(n) == Unit("fill", "", 0, 0, 0, 0, <<>>, NoDec, n)
\* a bare number of one or two digits, "5"
Num(d) == Unit("num", "", d, 0, 0, 0, <<>>, NoDec, IF d < 10 THEN 1 ELSE 2)
\* "dd.mm"
DM(d, m) == Unit("dm", "", d, m, 0, 0, <<>>, NoDec, 5)
\* "dd.mm.yy" (yd = 2) or "dd.mm.yyyy" (yd = 4); y is the year as written
DMY(d, m, y, yd) == Unit("dmy", "", d, m, y, yd, <<>>, NoDec, 6 + yd)
\* an amount "h.ggg.ggg,dd cur": h the digits before the first separator,
\* g the three-digit groups after it, dec the two decimals (NoDec if none),
\* cur the currency marker, "rub" (руб) or "P" (latin P)
Amt(h, g, dec, cur) ==
    Unit("amt", cur, h, 0, 0, 0, g, dec,
         (IF h < 10 THEN 1 ELSE IF h < 100 THEN 2 ELSE IF h < 1000 THEN 3
          ELSE IF h < 10000 THEN 4 ELSE IF h < 100000 THEN 5
          ELSE IF h < 1000000 THEN 6 ELSE 7)
         + 4 * Len(g) + (IF dec = NoDec THEN 0 ELSE 3)
         + (IF cur = "rub" THEN 4 ELSE 1))

----------------------------------------------------------------------------
(* Configuration *)

TARGET_MONTH == 3
TARGET_YEAR == 2026
SEND_IF_NO_DATE == TRUE
MIN_TEXT_LENGTH == 50
PRICE_MIN == 1000
PRICE_MAX == 500000

\* гоа, индия (the other entries of DESTINATIONS behave alike)
DESTINATIONS == {"goa", "indiya"}
\* москва (the other entries of DEPARTURE_CITIES behave alike)
DEPARTURE_CITIES == {"moskva"}
\* words of the vocabulary that contain an exclusion keyword (круиз, круизы)
ExcludeWords == {"kruiz", "kruizy"}
\* words that contain "вылет" / that end with it / that start with "из"
VyletWords == {"vylet", "vylety"}
VyletEndWords == {"vylet"}
IzWords == {"iz"}
\* тур, отель (the other stop words behave alike)
stopwords == {"tur", "otel"}

\* months_ru of extract_dates: the month whose stem the word starts with
\* (0: none).  "may" (май) is not in that table, "maya" (мая) is.
MonthRu(s) ==
    CASE s \in {"mart", "marta"} -> 3
      [] s = "fevralya" -> 2
      [] s = "maya" -> 5
      [] OTHER -> 0

\* month_names of extract_months_from_text: the month whose stem the word
\* contains (0: none); this table has both "май" and "мая"
MonthMention(s) ==
    CASE s \in {"mart", "marta"} -> 3
      [] s = "fevralya" -> 2
      [] s \in {"maya", "may"} -> 5
      [] OTHER -> 0

----------------------------------------------------------------------------
(* Helpers on sequences *)

RECURSIVE Flatten(_)
Flatten(lines) ==
    IF lines = <<>> THEN <<>> ELSE Head(lines) \o Flatten(Tail(lines))

RECURSIVE SumN(_)
SumN(line) == IF line = <<>> THEN 0 ELSE Head(line).n + SumN(Tail(line))

\* characters of a line: its units and the spaces between them
LineLen(line) == IF line = <<>> THEN 0 ELSE SumN(line) + Len(line) - 1

RECURSIVE SumLines(_)
SumLines(lines) ==
    IF lines = <<>> THEN 0 ELSE LineLen(Head(lines)) + SumLines(Tail(lines))

\* len(text): the lines and the newlines between them
TextLen(text) == IF text = <<>> THEN 0 ELSE SumLines(text) + Len(text) - 1

SeqMin(s) == CHOOSE x \in {s[i] : i \in 1..Len(s)} :
                 \A j \in 1..Len(s) : x <= s[j]

RECURSIVE Pow10(_)
Pow10(k) == IF k = 0 THEN 1 ELSE 10 * Pow10(k - 1)

----------------------------------------------------------------------------
(* FlightSearchAnalyzer.has_india_destination: DEST_PATTERN, whole words.   *)
(* A hashtag matches too: "#" is not a word character.                      *)

has_india_destination(text) ==
    \E i \in 1..Len(Flatten(text)) :
        /\ Flatten(text)[i].k \in {"w", "tag"}
        /\ Flatten(text)[i].s \in DESTINATIONS

\* any(keyword in text.lower() for keyword in exclude_keywords)
has_exclude_keyword(text) ==
    \E i \in 1..Len(Flatten(text)) :
        /\ Flatten(text)[i].k \in {"w", "tag"}
        /\ Flatten(text)[i].s \in ExcludeWords

----------------------------------------------------------------------------
(* FlightSearchAnalyzer.extract_dates *)

Cand(d, m, y) == [day |-> d, month |-> m, year |-> y]

IsLeap(y) == y % 4 = 0 /\ (y % 100 # 0 \/ y % 400 = 0)

DaysIn(m, y) ==
    CASE m = 2 -> IF IsLeap(y) THEN 29 ELSE 28
      [] m \in {4, 6, 9, 11} -> 30
      [] OTHER -> 31

\* datetime(year, month, day) is constructible; otherwise it raises ValueError
Constructible(c) ==
    /\ c.year >= 1 /\ c.year <= 9999
    /\ c.month >= 1 /\ c.month <= 12
    /\ c.day >= 1 /\ c.day <= DaysIn(c.month, c.year)

\* if 1 <= month <= 12 and 1 <= day <= 31
Plausible(d, m) == m >= 1 /\ m <= 12 /\ d >= 1 /\ d <= 31

\* (\d{1,2})[./](\d{1,2})[./](\d{2,4}): a two-digit year gets 2000 added
RECURSIVE Pat1(_)
Pat1(U) ==
    IF U = <<>> THEN <<>>
    ELSE (IF Head(U).k = "dmy" /\ Plausible(Head(U).d, Head(U).m)
          THEN << Cand(Head(U).d, Head(U).m,
                       IF Head(U).yd = 2 THEN 2000 + Head(U).y ELSE Head(U).y) >>
          ELSE <<>>) \o Pat1(Tail(U))

\* (\d{1,2})[./](\d{1,2})(?![./\d]): "dd.mm", and also the tail "mm.yy" of
\* "dd.mm.yy", read as day mm of month yy; the year is TARGET_YEAR
RECURSIVE Pat2(_)
Pat2(U) ==
    IF U = <<>> THEN <<>>
    ELSE (CASE Head(U).k = "dm" /\ Plausible(Head(U).d, Head(U).m)
                 -> << Cand(Head(U).d, Head(U).m, TARGET_YEAR) >>
            [] Head(U).k = "dmy" /\ Head(U).yd = 2
                 /\ Plausible(Head(U).m, Head(U).y)
                 -> << Cand(Head(U).m, Head(U).y, TARGET_YEAR) >>
            [] OTHER -> <<>>) \o Pat2(Tail(U))

\* the one or two digits a unit ends with, for (\d{1,2})\s+<month>; -1: none
TrailNum(u) ==
    CASE u.k = "num" -> u.d
      [] u.k = "dm" -> u.m
      [] u.k = "dmy" -> u.y % 100
      [] OTHER -> 0 - 1

\* rf"(\d{{1,2}})\s+{month_name}[а-я]*" for one entry of months_ru
RECURSIVE Pat3(_, _)
Pat3(U, month) ==
    IF Len(U) < 2 THEN <<>>
    ELSE (IF /\ U[2].k = "w" /\ MonthRu(U[2].s) = month
             /\ TrailNum(U[1]) >= 1 /\ TrailNum(U[1]) <= 31
          THEN << Cand(TrailNum(U[1]), month, TARGET_YEAR) >>
          ELSE <<>>) \o Pat3(Tail(U), month)

\* for month_name, month_num in months_ru.items()
RECURSIVE Pat3All(_, _)
Pat3All(U, month) ==
    IF month > 12 THEN <<>> ELSE Pat3(U, month) \o Pat3All(U, month + 1)

\* dates_info before the duplicates are removed
DateCandidates(text) ==
    Pat1(Flatten(text)) \o Pat2(Flatten(text)) \o Pat3All(Flatten(text), 1)

\* unique_dates: the first of every (day, month, year)
RECURSIVE Uniq(_, _)
Uniq(cs, seen) ==
    IF cs = <<>> THEN <<>>
    ELSE IF Head(cs) \in seen THEN Uniq(Tail(cs), seen)
    ELSE << Head(cs) >> \o Uniq(Tail(cs), seen \cup {Head(cs)})

\* extract_dates: raised is TRUE when a datetime(...) of a candidate raises
\* ValueError (the function has no try), and then there is no result
extract_dates(text) ==
    IF \E i \in 1..Len(DateCandidates(text)) :
           ~Constructible(DateCandidates(text)[i])
    THEN [raised |-> TRUE, dates |-> <<>>]
    ELSE [raised |-> FALSE, dates |-> Uniq(DateCandidates(text), {})]

\* extract_months_from_text: the months whose stem occurs in the text
extract_months_from_text(text) ==
    { MonthMention(Flatten(text)[i].s) :
        i \in { j \in 1..Len(Flatten(text)) :
                  /\ Flatten(text)[j].k \in {"w", "tag"}
                  /\ MonthMention(Flatten(text)[j].s) # 0 } }

----------------------------------------------------------------------------
(* FlightSearchAnalyzer.extract_price *)

NoPrice == 0 - 1

Digits(h) ==
    IF h < 10 THEN 1 ELSE IF h < 100 THEN 2 ELSE IF h < 1000 THEN 3
    ELSE IF h < 10000 THEN 4 ELSE IF h < 100000 THEN 5
    ELSE IF h < 1000000 THEN 6 ELSE 7

\* The integer the code parses out of one amount, NoPrice if no pattern
\* matches or float() raises ValueError.
\*  - руб: group(1) is \d{1,3}(?:[.,]\d{3})*(?:[.,]\d{2})?, so at most the
\*    last three digits before the first separator start the match; "," is
\*    replaced by "." and a string with a "." goes through int(float(...)):
\*    two or more separators raise ValueError, one separator is a decimal
\*    point.
\*  - latin P: (\d{4,6})\s*[pP]\b matches the last four to six digits of an
\*    amount written without separators.
ParsedAmount(u) ==
    IF u.s = "rub"
    THEN IF Len(u.g) + (IF u.dec = NoDec THEN 0 ELSE 1) >= 2
         THEN NoPrice
         ELSE u.d % 1000
    ELSE IF u.g = <<>> /\ u.dec = NoDec /\ Digits(u.d) >= 4
         THEN u.d % 1000000
         ELSE NoPrice

\* if 1000 <= price <= 500000: prices.append(price)
RECURSIVE Prices(_)
Prices(U) ==
    IF U = <<>> THEN <<>>
    ELSE (IF /\ Head(U).k = "amt"
             /\ ParsedAmount(Head(U)) >= PRICE_MIN
             /\ ParsedAmount(Head(U)) <= PRICE_MAX
          THEN << ParsedAmount(Head(U)) >> ELSE <<>>) \o Prices(Tail(U))

\* return min(prices) if prices else None
extract_price(text) ==
    IF Prices(Flatten(text)) = <<>> THEN NoPrice
    ELSE SeqMin(Prices(Flatten(text)))

----------------------------------------------------------------------------
(* FlightSearchAnalyzer._detect_departure *)

\* "вылет" in line_lower and " из" in line_lower: the line is stripped, so
\* " из" needs a unit before it
Qualifies(line) ==
    /\ \E i \in 1..Len(line) :
           line[i].k \in {"w", "tag"} /\ line[i].s \in VyletWords
    /\ \E i \in 2..Len(line) :
           line[i].k = "w" /\ line[i].s \in IzWords

ClauseAt(line, i) ==
    /\ i + 1 <= Len(line)
    /\ line[i].k \in {"w", "tag"} /\ line[i].s \in VyletEndWords
    /\ line[i + 1].k = "w" /\ line[i + 1].s \in IzWords

\* m = re.search(r"(?:вылет|departure)\s*(?:из|from)\s*[:\-]?\s*(.*)$", ...)
\* rest = m.group(1) if m else line_lower
RestOf(line) ==
    IF \E i \in 1..Len(line) : ClauseAt(line, i)
    THEN LET i == CHOOSE j \in 1..Len(line) :
                      /\ ClauseAt(line, j)
                      /\ \A h \in 1..(j - 1) : ~ClauseAt(line, h)
         IN  SubSeq(line, i + 2, Len(line))
    ELSE line

\* re.findall(r"#([a-zа-яё][\w\-]{2,})", rest)
RECURSIVE TagCandidates(_)
TagCandidates(rest) ==
    IF rest = <<>> THEN <<>>
    ELSE (IF Head(rest).k = "tag" /\ Head(rest).n - 1 >= 3
          THEN << Head(rest).s >> ELSE <<>>) \o TagCandidates(Tail(rest))

\* re.findall(r"[a-zа-яё][a-zа-яё\-]{2,}", rest): words of three letters or
\* more, the "руб" of an amount among them
RECURSIVE WordCandidates(_)
WordCandidates(rest) ==
    IF rest = <<>> THEN <<>>
    ELSE (CASE Head(rest).k = "w" /\ Head(rest).n >= 3
                 -> << Head(rest).s >>
            [] Head(rest).k = "amt" /\ Head(rest).s = "rub" -> << "rub" >>
            [] OTHER -> <<>>) \o WordCandidates(Tail(rest))

Candidates(rest) ==
    IF TagCandidates(rest) # <<>> THEN TagCandidates(rest)
    ELSE WordCandidates(rest)

\* the first candidate that is no stop word; "" is None
FirstValue(cs) ==
    IF \E i \in 1..Len(cs) : cs[i] \notin stopwords
    THEN cs[CHOOSE i \in 1..Len(cs) :
                /\ cs[i] \notin stopwords
                /\ \A h \in 1..(i - 1) : cs[h] \in stopwords]
    ELSE ""

\* MOSCOW_DEPARTURE_PATTERN.search(value) or MOSCOW_DEPARTURE_PATTERN.search(rest)
MoscowIn(value, rest) ==
    \/ value \in DEPARTURE_CITIES
    \/ \E i \in 1..Len(rest) :
           rest[i].k \in {"w", "tag"} /\ rest[i].s \in DEPARTURE_CITIES

Departure(explicit, is_moscow, value) ==
    [explicit |-> explicit, is_moscow |-> is_moscow, value |-> value]

\* the three returns inside the loop body, for a line that qualifies
LineDeparture(line) ==
    LET value == FirstValue(Candidates(RestOf(line))) IN
    IF value = "" THEN Departure(TRUE, "None", "")
    ELSE IF MoscowIn(value, RestOf(line)) THEN Departure(TRUE, "True", value)
    ELSE Departure(TRUE, "False", value)

\* for raw_line in text.splitlines(): lines that do not qualify are skipped,
\* the first that qualifies returns
RECURSIVE detect_departure(_)
detect_departure(text) ==
    IF text = <<>> THEN Departure(FALSE, "None", "")
    ELSE IF Qualifies(Head(text)) THEN LineDeparture(Head(text))
    ELSE detect_departure(Tail(text))

----------------------------------------------------------------------------
(* FlightSearchAnalyzer.is_relevant *)

\* the empty dict that every "return False, {}" carries
NoDetails ==
    [reason |-> "", price |-> NoPrice, target_month_dates |-> <<>>,
     departure |-> Departure(FALSE, "None", "")]

Verdict(outcome, match, details) ==
    [outcome |-> outcome, match |-> match, details |-> details]

Rejected == Verdict("return", FALSE, NoDetails)
\* extract_dates raised ValueError, which is_relevant does not catch
Raised == Verdict("raise", FALSE, NoDetails)

IsTargetMonth(c) == c.month = TARGET_MONTH

Accepted(text, reason) ==
    Verdict("return", TRUE,
            [reason |-> reason,
             price |-> extract_price(text),
             target_month_dates |->
                 IF reason = "exact_dates"
                 THEN SelectSeq(extract_dates(text).dates, IsTargetMonth)
                 ELSE <<>>,
             departure |-> detect_departure(text)])

\* a departure filter that lets through only a recognised Moscow departure
DepartureGateStrict(departure) ==
    departure.explicit /\ departure.is_moscow # "True"

\* the departure filter: explicit and is_moscow is False
DepartureGate(departure) == departure.explicit /\ departure.is_moscow = "False"

is_relevant(text) ==
    IF text = <<>> \/ TextLen(text) < MIN_TEXT_LENGTH THEN Rejected
    ELSE IF ~has_india_destination(text) THEN Rejected
    ELSE IF has_exclude_keyword(text) THEN Rejected
    ELSE IF DepartureGate(detect_departure(text)) THEN Rejected
    ELSE IF extract_dates(text).raised THEN Raised
    ELSE IF \E i \in 1..Len(extract_dates(text).dates) :
                IsTargetMonth(extract_dates(text).dates[i])
         THEN Accepted(text, "exact_dates")
    ELSE IF TARGET_MONTH \in extract_months_from_text(text) /\ SEND_IF_NO_DATE
         THEN Accepted(text, "march_mentioned")
    ELSE IF extract_dates(text).dates = <<>> /\ SEND_IF_NO_DATE
         THEN Accepted(text, "no_dates")
    ELSE Rejected

----------------------------------------------------------------------------
(* Sample texts.  The first line of a text is drawn from Headers, the      *)
(* following lines from SampleLines.                                       *)

\* the longest text the analyzer is applied to, in lines
MaxLines == 3

LDest == << W("goa", 3), Fill(50) >>
LLong == << Fill(50) >>
LShort == << W("goa", 3) >>
LEmpty == << >>

Headers == { LDest, LLong, LShort, LEmpty }

LMarch == << DM(12, 3) >>
LFeb31 == << DM(31, 2) >>
LKazan == << W("vylet", 5), W("iz", 2), W("kazan", 6) >>

SampleLines ==
    { << W("kruiz", 5) >>,
      << W("indiya", 5) >>,
      LKazan,
      << W("vylet", 5), W("iz", 2), W("moskva", 6) >>,
      << W("vylet", 5), W("iz", 2), W("moskvy", 6) >>,
      << W("vylet", 5), W("iz", 2), W("tur", 3) >>,
      << W("vylet", 5), W("kazan", 6) >>,
      << W("moskva", 6), W("vylet", 5), W("iz", 2), W("kazan", 6) >>,
      << W("vylety", 6), W("iz", 2), W("kazan", 6), W("moskva", 6) >>,
      << W("vylet", 5), W("iz", 2), Tag("kazan", 7), W("moskva", 6) >>,
      LMarch,
      << DM(12, 4) >>,
      LFeb31,
      << Num(5), W("marta", 5) >>,
      << Num(31), W("fevralya", 7) >>,
      << W("mart", 4) >>,
      << DMY(5, 3, 12, 2) >>,
      << DMY(29, 2, 2024, 4) >>,
      << Amt(51, << 400 >>, NoDec, "rub") >>,
      << Amt(60500, << >>, NoDec, "P") >>,
      << Amt(51400, << >>, NoDec, "rub") >>,
      << Amt(1, << 234, 567 >>, NoDec, "rub") >>,
      << Amt(2, << 500 >>, 50, "rub") >>,
      << Amt(1500, << >>, NoDec, "P") >>,
      << Amt(1234567, << >>, NoDec, "P") >>,
      << Amt(500, << >>, NoDec, "rub") >> }

----------------------------------------------------------------------------
(* Bounds of the model *)

\* messages posted to all channels together
MaxMsgs == 3
\* injected faults: failed loads, failed writes, failed sends, crashes
MaxFaults == 1
\* the largest message id passed to the store called on its own
MaxId == 3
\* mark_processed keeps the last 100 ids and iter_messages is called with
\* limit=200; the model keeps the last KeepLast ids and fetches at most
\* FetchLimit messages, a window and a limit scaled down so that eviction
\* and a full fetch happen within MaxMsgs messages (the limit stays above
\* the window, as in the source)
KeepLast == 2
FetchLimit == KeepLast + 1

\* two of the five entries of CHANNELS; clean_channel leaves them as they are
CHANNELS == << "a", "b" >>
Channels == { CHANNELS[i] : i \in 1..Len(CHANNELS) }

\* the messages of the feeds, by name: one whose text the analyzer accepts,
\* one whose text it rejects, and one on whose text extract_dates raises
FeedKinds == { "relevant", "other", "poison" }

\* what is posted where: every kind to the first channel; the other channels,
\* which are there for what one channel's pass does to another's, get
\* relevant messages only
KindsOf(channel) ==
    IF channel = CHANNELS[1] THEN FeedKinds ELSE { "relevant" }

\* msg.text of a message of the feed
TextOf(kind) ==
    CASE kind = "relevant" -> << LDest, LMarch >>
      [] kind = "other" -> << LLong >>
      [] kind = "poison" -> << LDest, LFeb31 >>

----------------------------------------------------------------------------
(* FileState: the store is a dict channel -> {last_id, processed_ids}; a   *)
(* channel that is not in the dict reads as last_id 0 and no processed ids *)
(* (get_last_id and is_duplicate default so), and is modelled as that.     *)

ChannelState(last_id, processed_ids) ==
    [last_id |-> last_id, processed_ids |-> processed_ids]

\* {}: no file, or a file that could not be read
EmptyStore == [c \in Channels |-> ChannelState(0, << >>)]

get_last_id(st, channel) == st[channel].last_id

\* self.state[channel]["last_id"] = message_id (before _save)
set_last_id(st, channel, message_id) ==
    [st EXCEPT ![channel].last_id = message_id]

is_duplicate(st, channel, message_id) ==
    \E i \in 1..Len(st[channel].processed_ids) :
        st[channel].processed_ids[i] = message_id

\* a mark_processed that keeps one record less than the window
mark_processed_short(st, channel, message_id) ==
    LET processed == Append(st[channel].processed_ids, message_id) IN
    [st EXCEPT ![channel].processed_ids =
        IF Len(processed) > KeepLast - 1
        THEN SubSeq(processed, Len(processed) - KeepLast + 2, Len(processed))
        ELSE processed]

\* processed.append(message_id); keep the last KeepLast (before _save)
mark_processed(st, channel, message_id) ==
    LET processed == Append(st[channel].processed_ids, message_id) IN
    [st EXCEPT ![channel].processed_ids =
        IF Len(processed) > KeepLast
        THEN SubSeq(processed, Len(processed) - KeepLast + 1, Len(processed))
        ELSE processed]

\* _load: the file's content, or {} when it cannot be read
Load(file, readable) == IF readable THEN file ELSE EmptyStore

\* a _save that writes the state file in place: a death in it can leave the
\* file truncated, which _load reads as {}
SaveOutcomesInPlace(old, new) == { old, new, EmptyStore }

\* _save writes a temporary file and os.replace()s it over the state file:
\* if the process dies in _save the file is the old or the new one
SaveOutcomes(old, new) == { old, new }

----------------------------------------------------------------------------
(* State *)

VARIABLES
    text,            \* analyzer: the text under analysis
    verdict,         \* analyzer: what is_relevant(text) gave
    price,           \* analyzer: what extract_price(text) gave
    relevance,       \* what is_relevant gives for the texts of the feeds
    feed,            \* channel -> the messages posted; a message's id is its index
    disk,            \* the state file (bot_state.json)
    state,           \* FileState.state of the running process
    pc,              \* "idle", or where monitor_channels is
    ci,              \* index into CHANNELS of the channel being checked
    batch,           \* new_messages of that channel (ids, ascending)
    todo,            \* the part of new_messages the for loop has not visited
    found_messages,  \* the matches of this run, not yet sent
    faults,          \* faults injected, by kind
    lastCall,        \* the store method last called on its own
    evals,           \* history: channel -> per id, calls of is_relevant
    notifs,          \* history: channel -> per id, additions to found_messages
    delivered,       \* history: channel -> per id, notifications sent
    fetched,         \* history: channel -> ids that were in some new_messages
    recorded,        \* history: channel -> ids that were in the file's processed_ids
    pass,            \* history: channel -> its pass in the current (or last) run
    abandoned        \* history: channel -> ids of a batch abandoned on a failed write

analyzerVars == << text, verdict, price, relevance >>
procVars == << state, pc, ci, batch, todo, found_messages >>
histVars == << evals, notifs, delivered, fetched, recorded, pass, abandoned >>
vars == << text, verdict, price, relevance, feed, disk, state, pc, ci, batch, todo,
           found_messages, faults, lastCall, evals, notifs, delivered,
           fetched, recorded, pass, abandoned >>

Pending == Verdict("pending", FALSE, NoDetails)

NoPass ==
    [status |-> "none", start |-> ChannelState(0, << >>), batch |-> << >>,
     matched |-> {}, skipped |-> {}, retry |-> {}]

NoCall == [op |-> "none", channel |-> "", message_id |-> 0]

SeqSet(q) == { q[i] : i \in 1..Len(q) }

FaultCount == faults.load + faults.write + faults.send + faults.crash

\* the processed ids a file holds, added to the history
Record(rec, file) ==
    [c \in Channels |-> rec[c] \cup SeqSet(file[c].processed_ids)]

Bump(counts, id) == [counts EXCEPT ![id] = IF @ < 2 THEN @ + 1 ELSE @]

Init ==
    /\ text = << >>
    /\ verdict = Pending
    /\ price = NoPrice
    /\ relevance = [kind \in FeedKinds |-> is_relevant(TextOf(kind))]
    /\ feed = [c \in Channels |-> << >>]
    /\ disk = EmptyStore
    /\ state = EmptyStore
    /\ pc = "idle"
    /\ ci = 0
    /\ batch = << >>
    /\ todo = << >>
    /\ found_messages = << >>
    /\ faults = [load |-> 0, write |-> 0, send |-> 0, crash |-> 0]
    /\ lastCall = NoCall
    /\ evals = [c \in Channels |-> << >>]
    /\ notifs = [c \in Channels |-> << >>]
    /\ delivered = [c \in Channels |-> << >>]
    /\ fetched = [c \in Channels |-> {}]
    /\ recorded = [c \in Channels |-> {}]
    /\ pass = [c \in Channels |-> NoPass]
    /\ abandoned = [c \in Channels |-> {}]

----------------------------------------------------------------------------
(* The analyzer applied to texts *)

\* one more line of the text that is_relevant is going to be given
Compose(line) ==
    /\ Len(text) < MaxLines
    /\ IF text = << >> THEN line \in Headers ELSE line \in SampleLines
    /\ text' = Append(text, line)
    /\ verdict' = Pending
    /\ price' = NoPrice
    /\ UNCHANGED << relevance, feed, disk, faults, lastCall >>
    /\ UNCHANGED procVars
    /\ UNCHANGED histVars

\* analyzer.is_relevant(text) and analyzer.extract_price(text)
Analyze ==
    /\ verdict = Pending
    /\ verdict' = is_relevant(text)
    /\ price' = extract_price(text)
    /\ UNCHANGED << text, relevance, feed, disk, faults, lastCall >>
    /\ UNCHANGED procVars
    /\ UNCHANGED histVars

AnalyzerNext ==
    \/ \E line \in Headers \cup SampleLines : Compose(line)
    \/ Analyze

AnalyzerSpec == Init /\ [][AnalyzerNext]_vars

----------------------------------------------------------------------------
(* The store called on its own: state = FileState(STATE_FILE), then any    *)
(* sequence of set_last_id and mark_processed, each ending in _save()      *)

CallSetLastId(channel, message_id) ==
    /\ state' = set_last_id(state, channel, message_id)
    /\ disk' = state'
    /\ lastCall' = [op |-> "set_last_id", channel |-> channel,
                    message_id |-> message_id]
    /\ UNCHANGED << feed, faults, pc, ci, batch, todo, found_messages >>
    /\ UNCHANGED analyzerVars
    /\ UNCHANGED histVars

CallMarkProcessed(channel, message_id) ==
    /\ state' = mark_processed(state, channel, message_id)
    /\ disk' = state'
    /\ lastCall' = [op |-> "mark_processed", channel |-> channel,
                    message_id |-> message_id]
    /\ UNCHANGED << feed, faults, pc, ci, batch, todo, found_messages >>
    /\ UNCHANGED analyzerVars
    /\ UNCHANGED histVars

StoreNext ==
    \/ \E c \in Channels, id \in 1..MaxId : CallSetLastId(c, id)
    \/ \E c \in Channels, id \in 1..MaxId : CallMarkProcessed(c, id)

StoreSpec == Init /\ [][StoreNext]_vars

----------------------------------------------------------------------------
(* monitor_channels: one run.  Every run is a new process, which loads the *)
(* state file, checks the channels in order and then sends what it found.  *)

Channel == CHANNELS[ci]

\* client.iter_messages(channel, min_id=last_id, limit=FetchLimit): the
\* newest messages above min_id, at most limit of them
iter_messages(channel, min_id, limit) ==
    LET above == { i \in 1..Len(feed[channel]) : i > min_id } IN
    { i \in above : Cardinality({ j \in above : j > i }) < limit }

\* the ids of a set in ascending order (messages.sort(key=lambda x: x.id))
RECURSIVE Sorted(_)
Sorted(ids) ==
    IF ids = {} THEN << >>
    ELSE LET lo == CHOOSE x \in ids : \A y \in ids : x <= y
         IN  << lo >> \o Sorted(ids \ {lo})

\* new_messages = [m for m in messages if m.id > last_id]
new_messages(channel, last_id) ==
    LET above(id) == id > last_id IN
    SelectSeq(Sorted(iter_messages(channel, last_id, FetchLimit)), above)

MaxOf(q) == CHOOSE x \in SeqSet(q) : \A y \in SeqSet(q) : y <= x

\* the process is gone: its memory is
Gone ==
    /\ state' = EmptyStore
    /\ pc' = "idle"
    /\ ci' = 0
    /\ batch' = << >>
    /\ todo' = << >>
    /\ found_messages' = << >>

\* the messages posted to the first k channels
RECURSIVE Posted(_)
Posted(k) == IF k = 0 THEN 0 ELSE Len(feed[CHANNELS[k]]) + Posted(k - 1)

\* a message appears in a channel (between runs: a message posted during a
\* run is seen by that run's fetch or by the next run's)
Post(channel, t) ==
    /\ pc = "idle"
    /\ t \in KindsOf(channel)
    /\ Posted(Len(CHANNELS)) < MaxMsgs
    /\ feed' = [feed EXCEPT ![channel] = Append(@, t)]
    /\ evals' = [evals EXCEPT ![channel] = Append(@, 0)]
    /\ notifs' = [notifs EXCEPT ![channel] = Append(@, 0)]
    /\ delivered' = [delivered EXCEPT ![channel] = Append(@, 0)]
    /\ UNCHANGED << disk, faults, lastCall, fetched,
                    recorded, pass, abandoned >>
    /\ UNCHANGED analyzerVars
    /\ UNCHANGED procVars

\* state = FileState(STATE_FILE); found_messages = []
StartRun(readable) ==
    /\ pc = "idle"
    /\ readable \/ FaultCount < MaxFaults
    /\ faults' = IF readable THEN faults ELSE [faults EXCEPT !.load = @ + 1]
    /\ state' = Load(disk, readable)
    /\ pc' = "fetch"
    /\ ci' = 1
    /\ batch' = << >>
    /\ todo' = << >>
    /\ found_messages' = << >>
    /\ pass' = [c \in Channels |-> NoPass]
    /\ UNCHANGED << feed, disk, lastCall, evals, notifs, delivered, fetched,
                    recorded, abandoned >>
    /\ UNCHANGED analyzerVars

\* last_id = state.get_last_id(channel); the fetch, the sort and the filter
Fetch ==
    /\ pc = "fetch"
    /\ LET nm == new_messages(Channel, get_last_id(state, Channel)) IN
       /\ batch' = nm
       /\ todo' = nm
       /\ fetched' = [fetched EXCEPT ![Channel] = @ \cup SeqSet(nm)]
       /\ pass' = [pass EXCEPT ![Channel] =
                     [status |-> "running", start |-> state[Channel],
                      batch |-> nm, matched |-> {}, skipped |-> {},
                      retry |-> abandoned[Channel]]]
    /\ pc' = "loop"
    /\ UNCHANGED << feed, disk, state, ci, found_messages, faults,
                    lastCall, evals, notifs, delivered, recorded, abandoned >>
    /\ UNCHANGED analyzerVars

\* the end of the try block of a channel, or its except: the next channel,
\* or the sending once the for loop over the channels is over
NextChannel ==
    /\ ci' = ci + 1
    /\ pc' = IF ci + 1 > Len(CHANNELS) THEN "send" ELSE "fetch"

\* self._save() of a store left as `new`: it succeeds ("ok"), it raises and
\* the file stays as it was ("raise"), or the process dies in it ("die")
Save(new, outcome) ==
    /\ outcome \in {"ok", "raise", "die"}
    /\ outcome # "ok" => FaultCount < MaxFaults
    /\ disk' \in (CASE outcome = "ok" -> { new }
                    [] outcome = "raise" -> { disk }
                    [] OTHER -> SaveOutcomes(disk, new))
    /\ recorded' = Record(recorded, disk')
    /\ faults' = CASE outcome = "ok" -> faults
                   [] outcome = "raise" -> [faults EXCEPT !.write = @ + 1]
                   [] OTHER -> [faults EXCEPT !.crash = @ + 1]

\* for msg in new_messages: a duplicate is skipped
Skip ==
    /\ pc = "loop" /\ todo # << >>
    /\ is_duplicate(state, Channel, Head(todo))
    /\ todo' = Tail(todo)
    /\ pass' = [pass EXCEPT ![Channel].skipped = @ \cup {Head(todo)}]
    /\ UNCHANGED << feed, disk, state, pc, ci, batch, found_messages,
                    faults, lastCall, evals, notifs, delivered, fetched,
                    recorded, abandoned >>
    /\ UNCHANGED analyzerVars

\* is_relevant raises on the message: the except of the channel
Poisoned ==
    /\ pc = "loop" /\ todo # << >>
    /\ ~is_duplicate(state, Channel, Head(todo))
    /\ TextOf(feed[Channel][Head(todo)]) # << >>
    /\ relevance[feed[Channel][Head(todo)]].outcome = "raise"
    /\ evals' = [evals EXCEPT ![Channel] = Bump(@, Head(todo))]
    /\ pass' = [pass EXCEPT ![Channel].status = "raised"]
    /\ abandoned' = [abandoned EXCEPT ![Channel] = {}]
    /\ todo' = << >>
    /\ NextChannel
    /\ UNCHANGED << feed, disk, state, batch, found_messages, faults,
                    lastCall, notifs, delivered, fetched, recorded >>
    /\ UNCHANGED analyzerVars

\* the body of the loop for a message that is no duplicate: is_relevant (if
\* the message has text), found_messages.append on a match, and then
\* state.mark_processed(channel, msg.id)
Visit(outcome) ==
    /\ pc = "loop" /\ todo # << >>
    /\ LET id == Head(todo)
           t == TextOf(feed[Channel][id])
           v == IF t # << >> THEN relevance[feed[Channel][id]] ELSE Rejected
           found == IF v.match
                    THEN Append(found_messages, [channel |-> Channel, id |-> id])
                    ELSE found_messages
           new == mark_processed(state, Channel, id)
           seen == [pass[Channel] EXCEPT
                      !.matched = IF v.match THEN @ \cup {id} ELSE @]
       IN
       /\ ~is_duplicate(state, Channel, id)
       /\ v.outcome = "return"
       /\ evals' = IF t # << >> THEN [evals EXCEPT ![Channel] = Bump(@, id)]
                   ELSE evals
       /\ notifs' = IF v.match THEN [notifs EXCEPT ![Channel] = Bump(@, id)]
                    ELSE notifs
       /\ Save(new, outcome)
       /\ CASE outcome = "ok" ->
                 /\ state' = new
                 /\ todo' = Tail(todo)
                 /\ found_messages' = found
                 /\ pass' = [pass EXCEPT ![Channel] = seen]
                 /\ UNCHANGED << pc, ci, batch, abandoned >>
            [] outcome = "raise" ->
                 /\ state' = new
                 /\ todo' = << >>
                 /\ found_messages' = found
                 /\ pass' = [pass EXCEPT ![Channel] =
                               [seen EXCEPT !.status = "write"]]
                 /\ abandoned' = [abandoned EXCEPT ![Channel] = SeqSet(batch)]
                 /\ batch' = batch
                 /\ NextChannel
            [] OTHER ->
                 /\ Gone
                 /\ pass' = [pass EXCEPT ![Channel] = seen]
                 /\ UNCHANGED abandoned
    /\ UNCHANGED << feed, lastCall, delivered, fetched >>
    /\ UNCHANGED analyzerVars

\* after the loop: if new_messages: state.set_last_id(channel, max_id)
Advance(outcome) ==
    /\ pc = "loop" /\ todo = << >>
    /\ IF batch = << >>
       THEN /\ outcome = "ok"
            /\ pass' = [pass EXCEPT ![Channel].status = "ok"]
            /\ abandoned' = [abandoned EXCEPT ![Channel] = {}]
            /\ NextChannel
            /\ UNCHANGED << disk, state, recorded, faults, batch, todo,
                            found_messages >>
       ELSE LET new == set_last_id(state, Channel, MaxOf(batch)) IN
            /\ Save(new, outcome)
            /\ CASE outcome = "ok" ->
                      /\ state' = new
                      /\ pass' = [pass EXCEPT ![Channel].status = "ok"]
                      /\ abandoned' = [abandoned EXCEPT ![Channel] = {}]
                      /\ NextChannel
                      /\ UNCHANGED << batch, todo, found_messages >>
                 [] outcome = "raise" ->
                      /\ state' = new
                      /\ pass' = [pass EXCEPT ![Channel].status = "write"]
                      /\ abandoned' =
                             [abandoned EXCEPT ![Channel] = SeqSet(batch)]
                      /\ NextChannel
                      /\ UNCHANGED << batch, todo, found_messages >>
                 [] OTHER ->
                      /\ Gone
                      /\ UNCHANGED << pass, abandoned >>
    /\ UNCHANGED << feed, lastCall, evals, notifs, delivered, fetched >>
    /\ UNCHANGED analyzerVars

\* for msg in found_messages: send_telegram_message(text), whose result is
\* not looked at; with nothing found, the "nothing found" notice.  After
\* the last message the run is over.
Send(sent) ==
    /\ pc = "send"
    /\ sent \/ FaultCount < MaxFaults
    /\ faults' = IF sent THEN faults ELSE [faults EXCEPT !.send = @ + 1]
    /\ IF found_messages = << >>
       THEN /\ Gone
            /\ UNCHANGED delivered
       ELSE /\ delivered' = IF sent
                            THEN [delivered EXCEPT
                                     ![Head(found_messages).channel] =
                                         Bump(@, Head(found_messages).id)]
                            ELSE delivered
            /\ IF Tail(found_messages) = << >>
               THEN Gone
               ELSE /\ found_messages' = Tail(found_messages)
                    /\ UNCHANGED << state, pc, ci, batch, todo >>
    /\ UNCHANGED << feed, disk, lastCall, evals, notifs, fetched, recorded,
                    pass, abandoned >>
    /\ UNCHANGED analyzerVars

\* the process dies while it sends (a death between two writes leaves the
\* file as a death in the next _save does when the old file survives)
Crash ==
    /\ pc = "send"
    /\ FaultCount < MaxFaults
    /\ faults' = [faults EXCEPT !.crash = @ + 1]
    /\ Gone
    /\ UNCHANGED << feed, disk, lastCall, evals, notifs, delivered,
                    fetched, recorded, pass, abandoned >>
    /\ UNCHANGED analyzerVars

Next ==
    \/ \E c \in Channels, kind \in FeedKinds : Post(c, kind)
    \/ \E readable \in BOOLEAN : StartRun(readable)
    \/ Fetch
    \/ Skip
    \/ Poisoned
    \/ \E outcome \in {"ok", "raise", "die"} : Visit(outcome)
    \/ \E outcome \in {"ok", "raise", "die"} : Advance(outcome)
    \/ \E sent \in BOOLEAN : Send(sent)
    \/ Crash

Spec == Init /\ [][Next]_vars

\* A backlog: more messages than one fetch returns appear in the first
\* channel (one more than FetchLimit at most), none of them one on which the
\* analyzer raises
Backlog(t) ==
    /\ pc = "idle"
    /\ t \in FeedKinds \ {"poison"}
    /\ Len(feed[CHANNELS[1]]) <= FetchLimit
    /\ feed' = [feed EXCEPT ![CHANNELS[1]] = Append(@, t)]
    /\ evals' = [evals EXCEPT ![CHANNELS[1]] = Append(@, 0)]
    /\ notifs' = [notifs EXCEPT ![CHANNELS[1]] = Append(@, 0)]
    /\ delivered' = [delivered EXCEPT ![CHANNELS[1]] = Append(@, 0)]
    /\ UNCHANGED << disk, faults, lastCall, fetched,
                    recorded, pass, abandoned >>
    /\ UNCHANGED analyzerVars
    /\ UNCHANGED procVars

\* runs in which the load, every write and every send succeed
BacklogNext ==
    \/ \E kind \in FeedKinds : Backlog(kind)
    \/ StartRun(TRUE)
    \/ Fetch
    \/ Visit("ok")
    \/ Advance("ok")
    \/ Send(TRUE)

BacklogSpec == Init /\ [][BacklogNext]_vars

----------------------------------------------------------------------------
(* Claims about the run and the store *)

Ids(channel) == 1..Len(feed[channel])

\* C1 (as claimed): across any sequence of runs, failed writes, failed loads
\* and deaths of the process included, every message of every channel is
\* given to is_relevant at most once and its notification is sent at most
\* once.
C1_AtMostOnce ==
    \A c \in Channels : \A id \in Ids(c) :
        evals[c][id] <= 1 /\ delivered[c][id] <= 1

\* C2 (as claimed): the stored last id of a channel never decreases; a
\* set_last_id with a lower id than the stored one leaves it as it is.
C2_CursorMonotone ==
    [][\A c \in Channels : disk'[c].last_id >= disk[c].last_id]_vars

\* C3 (as claimed): a second mark_processed with the same channel and id
\* leaves is_duplicate true for it and the stored processed ids as they were
\* after the first call.
C3_MarkIdempotent ==
    [][(lastCall.op = "mark_processed" /\ lastCall' = lastCall)
         => /\ is_duplicate(disk', lastCall.channel, lastCall.message_id)
            /\ disk'[lastCall.channel].processed_ids
                 = disk[lastCall.channel].processed_ids]_vars

\* the pass of a channel went through: the loop and the cursor write
Done(c) == pass[c].status = "ok"

\* the ids of a batch that the analyzer accepts
RelevantIn(c, ids) == { id \in ids : relevance[feed[c][id]].match }

LastN(q, n) == IF Len(q) > n THEN SubSeq(q, Len(q) - n + 1, Len(q)) ELSE q

C5_WriteFailure ==
    /\ \A c \in Channels :
           pass[c].status = "write" => disk[c].last_id = pass[c].start.last_id
    /\ pc = "send" => \A c \in Channels : pass[c].status \notin {"none", "running"}
    /\ \A c \in Channels :
           (Done(c) /\ pass[c].retry # {}) =>
               /\ pass[c].retry \subseteq SeqSet(pass[c].batch)
               /\ pass[c].skipped \cap pass[c].retry = {}

\* C6 (as claimed): a date candidate that cannot be constructed is dropped:
\* is_relevant returns a verdict for the message, the pass goes on, the
\* message is marked processed and the cursor moves past it.
C6_CandidateDropped ==
    \A c \in Channels : \A id \in SeqSet(pass[c].batch) :
        (feed[c][id] = "poison" /\ pass[c].status \in {"ok", "raised"}) =>
            /\ relevance[feed[c][id]].outcome = "return"
            /\ Done(c)
            /\ disk[c].last_id >= id

\* C7: a cursor on disk is never above a message of the channel's batch
\* whose processed record has not been on disk; and, as long as no load
\* failed, a processed record that was on disk is still there unless the
\* window of KeepLast records is full (the file survives a death of the
\* process in _save as the old or as the new file).
C7_CursorAfterMarks ==
    /\ \A c \in Channels : \A id \in SeqSet(pass[c].batch) :
           id <= disk[c].last_id => id \in recorded[c]
    /\ faults.load = 0 =>
           \A c \in Channels : \A id \in recorded[c] :
               \/ is_duplicate(disk, c, id)
               \/ Len(disk[c].processed_ids) = KeepLast

\* the process died between the marks of a batch and the cursor write
C7_Witness ==
    /\ faults.crash = 1 /\ pc = "idle"
    /\ \E c \in Channels :
           /\ Len(disk[c].processed_ids) >= 2
           /\ disk[c].last_id = 0

\* C11 (as claimed): after a pass of a channel every message above the
\* cursor the pass started from and at most the cursor on disk has been
\* marked processed, and no message at or below the cursor on disk was never
\* fetched, also when more than FetchLimit messages came since the last run.
C11_NoCursorJump ==
    \A c \in Channels :
        Done(c) =>
            \A id \in Ids(c) :
                /\ (pass[c].start.last_id < id /\ id <= disk[c].last_id) =>
                       id \in recorded[c]
                /\ id <= disk[c].last_id => id \in fetched[c]

\* the message is recorded on disk: marked processed, or at or below the cursor
Recorded(c, id) == is_duplicate(disk, c, id) \/ id <= disk[c].last_id

\* C12 (as claimed): no match is lost: once a run is over (its sends done or
\* failed, or the process dead), a message that is_relevant accepted and that
\* is recorded on disk, so that no later run looks at it again, has had its
\* notification sent.
C12_NoMatchLost ==
    pc = "idle" =>
        \A c \in Channels : \A id \in Ids(c) :
            (evals[c][id] >= 1 /\ relevance[feed[c][id]].match
                /\ Recorded(c, id)) =>
                delivered[c][id] >= 1

(* Claims about the analyzer *)

Analysed == verdict.outcome # "pending"

\* the candidates of the text that are calendar dates
ValidDates(text_) == SelectSeq(DateCandidates(text_), Constructible)

HasTargetDate(text_) ==
    \E i \in 1..Len(ValidDates(text_)) : IsTargetMonth(ValidDates(text_)[i])

\* the decision and the reason code of the ordered gates as C8 states them
GateVerdict(text_) ==
    IF text_ = << >> \/ TextLen(text_) < MIN_TEXT_LENGTH
        THEN [match |-> FALSE, reason |-> "too-short"]
    ELSE IF ~has_india_destination(text_)
        THEN [match |-> FALSE, reason |-> "no-destination"]
    ELSE IF has_exclude_keyword(text_)
        THEN [match |-> FALSE, reason |-> "excluded"]
    ELSE IF detect_departure(text_).is_moscow = "False"
        THEN [match |-> FALSE, reason |-> "departure-mismatch"]
    ELSE IF HasTargetDate(text_)
        THEN [match |-> TRUE, reason |-> "exact-target-date"]
    ELSE IF TARGET_MONTH \in extract_months_from_text(text_)
        THEN [match |-> TRUE, reason |-> "target-month-mentioned"]
    ELSE IF ValidDates(text_) = << >>
        THEN [match |-> TRUE, reason |-> "no-date-present"]
    ELSE [match |-> FALSE, reason |-> "off-target-date"]

\* the reason code of C8 for the reason string of the code
ReasonCode(reason) ==
    CASE reason = "exact_dates" -> "exact-target-date"
      [] reason = "march_mentioned" -> "target-month-mentioned"
      [] reason = "no_dates" -> "no-date-present"
      [] OTHER -> reason

\* C8 (as claimed): is_relevant decides by the first gate that applies, in
\* the order length, destination, exclusion, departure, date in the target
\* month, target month mentioned, no date, other date, and every verdict,
\* a rejection included, carries the reason code of that gate.
C8_OrderedGates ==
    Analysed =>
        /\ verdict.outcome = "return"
        /\ verdict.match = GateVerdict(text).match
        /\ ReasonCode(verdict.details.reason) = GateVerdict(text).reason

QualifyingLines(text_) == { i \in 1..Len(text_) : Qualifies(text_[i]) }

FirstQualifying(text_) ==
    CHOOSE i \in QualifyingLines(text_) :
        \A j \in QualifyingLines(text_) : i <= j

\* length, destination and exclusion let the text through
ReachesDeparture(text_) ==
    /\ text_ # << >> /\ TextLen(text_) >= MIN_TEXT_LENGTH
    /\ has_india_destination(text_)
    /\ ~has_exclude_keyword(text_)

\* the date rules accept the text
DatesAccept(text_) ==
    /\ ~extract_dates(text_).raised
    /\ \/ HasTargetDate(text_)
       \/ TARGET_MONTH \in extract_months_from_text(text_)
       \/ extract_dates(text_).dates = << >>

RECURSIVE JoinGroups(_, _)
JoinGroups(h, g) ==
    IF g = << >> THEN h ELSE JoinGroups(h * 1000 + Head(g), Tail(g))

\* the digits of an amount with its separators removed
Stripped(u) ==
    IF u.dec = NoDec THEN JoinGroups(u.d, u.g)
    ELSE JoinGroups(u.d, u.g) * Pow10(2) + u.dec

InRange(p) == p >= PRICE_MIN /\ p <= PRICE_MAX

StrippedPrices(text_) ==
    { Stripped(Flatten(text_)[i]) :
        i \in { j \in 1..Len(Flatten(text_)) :
                  /\ Flatten(text_)[j].k = "amt"
                  /\ InRange(Stripped(Flatten(text_)[j])) } }

\* C10 (as claimed): extract_price gives the smallest amount of the text
\* that is in [PRICE_MIN, PRICE_MAX] once its separators are removed
\* ("51.400 rub" gives 51400), nothing when there is no such amount, and
\* never a value outside the range.
C10_PriceRange ==
    Analysed =>
        /\ price = NoPrice \/ InRange(price)
        /\ IF StrippedPrices(text) = {} THEN price = NoPrice
           ELSE /\ price \in StrippedPrices(text)
                /\ \A p \in StrippedPrices(text) : price <= p

====
